---- MODULE Spec2Model ----
(***************************************************************************)
(* Elevator-bank parking study: the dispatch simulators                    *)
(*   project/scripts/run_stress_tests.py       simulate                    *)
(*   project/scripts/make_task3_materials.py   simulate_baselines.run      *)
(* and the parking-policy functions                                        *)
(*   project/situ_model_2026/scripts/task3_evaluator_parking.py            *)
(*   szeto_model_2026/src/task3_parking.py                                 *)
(*                                                                         *)
(* Time is counted in ticks of half a second, so that the base parameters  *)
(* seconds_per_floor = 1.5 s and door_time = 8.0 s are the integers 3 and  *)
(* 16 and a 5-minute decision period is 600.  All the simulators' time     *)
(* arithmetic is addition, subtraction, max and multiplication by a floor  *)
(* distance, which is exact on these values.  Cars are numbered from 1     *)
(* (the code numbers them from 0); the order of the numbering is kept.     *)
(***************************************************************************)
EXTENDS Integers, Sequences, FiniteSets, TLC

\* ------------------------------------------------------------------ bounds
MaxCars  == 2      \* largest fleet simulated
MaxFloor == 5      \* floors are 1..MaxFloor
MaxCalls == 2      \* hall calls dispatched in one run

MaxFleet     == 64  \* largest fleet a parking plan is asked for
MaxHist      == 3   \* longest recent-floor history given to parking_zone
MaxEvalFloor == 10  \* highest floor of the evaluator's call log (F_max)
MaxYhat      == 11  \* largest predicted demand y_hat
MaxMoveFleet == 4   \* largest fleet given to compute_reposition_moves
MaxCount     == 3   \* largest call count of a slot, and largest count threshold
MaxMu        == 4   \* largest baseline mean mu_w(tau)
MaxPhi       == 15  \* largest AR coefficient, in tenths, in absolute value
MaxSeries    == 3   \* longest training series, in slots
MaxCallLog   == 3   \* largest number of calls in a call log
MaxMinute    == 16  \* latest call time of a call log, in minutes
MaxLog       == 3   \* largest number of rows of a simulation log
MaxSlot      == 8   \* latest 5-minute bin of a tagged log
MaxBins      == 3   \* largest number of 5-minute bins of an evaluated call log
MaxParked    == 2   \* largest number of cars the evaluator parks

\* ------------------------------------------------------- program constants
LOBBY_FLOOR            == 1
DECISION_FREQ          == 600    \* "5min"
SECONDS_PER_FLOOR_BASE == 3      \* 1.5 s
DOOR_TIME_BASE         == 16     \* 8.0 s
LOBBY_MAX              == 3      \* --lobby_max
MID_MAX                == 8      \* --mid_max
alpha1                 == 6      \* 0.6, in tenths
alpha2                 == 4      \* 0.4, in tenths
alpha3                 == 6      \* 0.6, in tenths
beta1                  == 3      \* 0.3, in tenths
N_INTERVALS_PER_DAY    == 288    \* 24 * 12
SLOT_MINUTES           == 5      \* the '5T' frequency

Floors == 1..MaxFloor

\* The strategy names main() asks simulate for.  ("dynamic_kmeans", the fifth, is
\* handled by simulate exactly as "dynamic_rule" is and is not simulated apart.)
STRATEGIES == {"last_stop", "lobby", "dynamic", "dynamic_rule"}
\* The strategy names apply_parking_policy tests for.
IMPLEMENTED == {"last_stop", "lobby", "dynamic"}
\* The strategy names simulate_baselines asks run for.
BASELINE_STRATEGIES == {"last_stop", "lobby"}

\* <<seconds_per_floor, door_time>> simulated: the base scenario and each
\* parameter at its zero boundary.
SimParams == {<<SECONDS_PER_FLOOR_BASE, DOOR_TIME_BASE>>,
              <<0, DOOR_TIME_BASE>>,
              <<SECONDS_PER_FLOOR_BASE, 0>>}

\* Calls fall on these instants of the simulated window.
StartTimes == {0}
CallTimes  == {0, DECISION_FREQ - 4, DECISION_FREQ}
RerunCallTimes == {DECISION_FREQ - 4, 2 * DECISION_FREQ}

\* Cluster ids the mode classifier may predict at a decision epoch.
Clusters == {0, 1}

VARIABLES
    engine,            \* which simulator runs: "stress" or "baseline"
    strategy,
    seconds_per_floor,
    door_time,
    start_time,
    n_elevators,
    init_pos,          \* car -> initial floor
    hall_range,        \* <<min, max>> of the call floors of hall_sim
    floor,             \* car -> current floor           (ElevatorState.floor / pos)
    available_time,    \* car -> time the car is free     (ElevatorState.available_time / avail)
    dt_iter,           \* position of next_dec in decision_times
    pc,                \* "start", "fetch", "park", "done"
    call,              \* the row being processed (or the last one processed)
    waits,             \* the recorded wait times, in order
    empty_travel,      \* the baseline simulator's accumulator (floors)
    result,            \* "none", "nan" or "metrics"
    moved,             \* history: cars repositioned since the previous dispatch
    last,              \* history: the last dispatch and the fleet it chose from
    lastArr,           \* history: car -> <<arrival time of its last assigned call>> or <<>>
    fn,                \* policy functions: the function called ("none" in a simulation)
    args,              \* its arguments
    ret                \* its return value, <<>> before the call

simVars == <<engine, strategy, seconds_per_floor, door_time, start_time, n_elevators,
             init_pos, hall_range, floor, available_time, dt_iter, pc, call, waits,
             empty_travel, result, moved, last, lastArr>>
fnVars == <<fn, args, ret>>
vars == <<simVars, fnVars>>

\* The simulated window is [start_time, EndTime]: one decision period, and two
\* when simulate is run twice.
EndTime == IF fn = "simulate" THEN 2 * DECISION_FREQ ELSE DECISION_FREQ

Cars == 1..n_elevators

Abs(x) == IF x < 0 THEN -x ELSE x
Max(a, b) == IF a >= b THEN a ELSE b
Min(a, b) == IF a <= b THEN a ELSE b

FloorTo(t, f) == (t \div f) * f
CeilTo(t, f)  == ((t + f - 1) \div f) * f

travel_time_signed(f1, f2, spf) == (f1 - f2) * spf
travel_time_seconds(f1, f2, spf) == Abs(f1 - f2) * spf

\* pd.date_range(start_time.floor(DECISION_FREQ), end_time.ceil(DECISION_FREQ), freq)
decision_times ==
    LET lo == FloorTo(start_time, DECISION_FREQ)
        hi == CeilTo(EndTime, DECISION_FREQ)
    IN  [i \in 1..((hi - lo) \div DECISION_FREQ + 1) |-> lo + (i - 1) * DECISION_FREQ]

HasNextDec == dt_iter <= Len(decision_times)
next_dec   == decision_times[dt_iter]

\* ------------------------------------------------- dynamic parking targets
\* demand_lookup (run_stress_tests.py 354-360): cluster -> (floors, w), the call
\* counts learned per (cluster, floor).  groupby leaves the floors in increasing
\* order, so the argsort of line 401 keeps them as they are.  Cluster 1 has no
\* learned demand and takes the fallback of lines 397-398.
demand_lookup == [cl \in {0} |-> [floors |-> <<1, 2, MaxFloor>>, w |-> <<2, 1, 1>>]]

RECURSIVE CumSum(_, _)
CumSum(w, i) == IF i = 0 THEN 0 ELSE CumSum(w, i - 1) + w[i]

\* np.searchsorted(cw, num/den) with cw = cumsum(w) / (sum(w) + 1e-12): the first
\* position whose cumulative share reaches the quantile.  The 1e-12 of the
\* denominator puts an exact tie cumsum/sum = num/den just below the quantile (for
\* the small counts of this model), hence the strict comparison.
SearchSorted(w, num, den) ==
    LET W    == CumSum(w, Len(w))
        hits == {i \in 1..Len(w) : CumSum(w, i) * den > num * W}
    IN  CHOOSE i \in hits : \A j \in hits : i <= j

\* targets of lines 400-405 for k idle cars: the (i + 0.5)/k quantile floors
dynamic_targets(cl, k) ==
    LET known  == cl \in DOMAIN demand_lookup
        floors == IF known THEN demand_lookup[cl].floors
                  ELSE [i \in 1..(hall_range[2] - hall_range[1] + 1) |-> hall_range[1] + i - 1]
        w      == IF known THEN demand_lookup[cl].w ELSE [i \in 1..Len(floors) |-> 1]
    IN  [i \in 1..k |-> floors[SearchSorted(w, 2 * (i - 1) + 1, 2 * k)]]

\* ------------------------------------------------------ apply_parking_policy
\* idle = [e for e, st in elevators.items() if st.available_time <= t]
IsIdleEver(e, t) == TRUE
IsIdleAtCall(e, t) == available_time[e] <= call.time
IsIdle(e, t) == available_time[e] <= t
idle(t) == SelectSeq([e \in 1..n_elevators |-> e], LAMBDA e : IsIdle(e, t))

\* st.available_time = t + pd.Timedelta(seconds=tt)
RepositionDoneLost(t, tt) == tt
RepositionDone(t, tt) == t + tt

\* The target floor of every car the policy relocates at epoch t; a car outside
\* the domain is left alone.  The strategy names that no branch of
\* apply_parking_policy tests fall off the end of the function: no car is moved.
parking_targets_to_lobby(t, cl) ==
    LET id == idle(t)
    IN  [e \in {id[j] : j \in 1..Len(id)} |-> LOBBY_FLOOR]
parking_targets(t, cl) ==
    LET id == idle(t)
    IN  IF Len(id) = 0 THEN << >>
        ELSE IF strategy = "last_stop" THEN << >>
        ELSE IF strategy = "lobby"
             THEN [e \in {id[j] : j \in 1..Len(id)} |-> LOBBY_FLOOR]
        ELSE IF strategy = "dynamic"
             THEN LET tg == dynamic_targets(cl, Len(id))
                  IN  [e \in {id[j] : j \in 1..Len(id)} |->
                          tg[CHOOSE j \in 1..Len(id) : id[j] = e]]
        ELSE << >>

RelocatedAll(t, cl) == DOMAIN parking_targets(t, cl)
Relocated(t, cl) ==
    LET tg == parking_targets(t, cl)
    IN  {e \in DOMAIN tg : floor[e] # tg[e]}

\* ----------------------------------------------------------- car selection
\* start_service = max(st.available_time, call_time); arr = start_service + travel
ArrivalIgnoringBusy(e, fl, av, c) ==
    c.time + travel_time_seconds(fl[e], c.floor, seconds_per_floor)
Arrival(e, fl, av, c) ==
    Max(av[e], c.time) + travel_time_seconds(fl[e], c.floor, seconds_per_floor)

\* if best_arrival is None or arr < best_arrival
BetterOrEqual(arr, best_arrival) == arr <= best_arrival
Better(arr, best_arrival) == arr < best_arrival

RECURSIVE BestFrom(_, _, _, _, _, _)
BestFrom(e, best_e, best_arrival, fl, av, c) ==
    IF e > n_elevators THEN <<best_e, best_arrival>>
    ELSE LET arr == Arrival(e, fl, av, c)
         IN  IF best_e = 0 \/ Better(arr, best_arrival)
             THEN BestFrom(e + 1, e, arr, fl, av, c)
             ELSE BestFrom(e + 1, best_e, best_arrival, fl, av, c)

\* waits.append((best_arrival - call_time).total_seconds())
WaitWithDoor(best_arrival, call_time) == best_arrival - call_time + door_time
WaitOf(best_arrival, call_time) == best_arrival - call_time

\* st.available_time = best_arrival + pd.Timedelta(seconds=door_time)
ServiceEndAtCall(best_arrival) == call.time
ServiceEndNoDoor(best_arrival) == best_arrival
ServiceEnd(best_arrival) == best_arrival + door_time

\* The dispatch of call c over the fleet (fl, av), after the cars of mv were
\* repositioned: the state both simulators leave (lines 429-440 and 92-109).
Serve(c, fl, av, mv) ==
    LET b == BestFrom(1, 0, 0, fl, av, c)
        best_e == b[1]
        best_arrival == b[2]
    IN  /\ waits' = Append(waits, WaitOf(best_arrival, c.time))
        /\ floor' = [fl EXCEPT ![best_e] = c.floor]
        /\ available_time' = [av EXCEPT ![best_e] = ServiceEnd(best_arrival)]
        /\ last' = [time |-> c.time, floor |-> c.floor, car |-> best_e,
                    wait |-> WaitOf(best_arrival, c.time),
                    preFloor |-> fl, preAvail |-> av, moved |-> mv,
                    prevFloor |-> last.floor,
                    prevArr |-> IF last.car = 0 THEN 0 ELSE lastArr[last.car][1]]
        /\ lastArr' = [lastArr EXCEPT ![best_e] = <<best_arrival>>]
        /\ moved' = {}

\* ------------------------------------------------------------ initial states
NoDispatch == [time |-> 0, floor |-> 0, car |-> 0, wait |-> 0,
               preFloor |-> << >>, preAvail |-> << >>, moved |-> {},
               prevFloor |-> 0, prevArr |-> 0]

NotAPolicyCall == fn = "none" /\ args = << >> /\ ret = << >>

\* Initial floors infer_initial_positions may find in the stop log.
InitFloors == {LOBBY_FLOOR, MaxFloor}
\* Floor ranges of the simulated calls (they decide the dynamic fallback).
HallRanges == {<<1, MaxFloor>>}

\* simulate(...) of run_stress_tests.py up to the construction of the fleet
StressRun ==
    /\ engine = "stress"
    /\ strategy \in STRATEGIES
    /\ \E p \in SimParams : seconds_per_floor = p[1] /\ door_time = p[2]
    /\ start_time \in StartTimes
    /\ n_elevators \in 1..MaxCars
    /\ init_pos \in [1..n_elevators -> InitFloors]
    /\ hall_range \in HallRanges
    /\ floor = init_pos
    /\ available_time = [e \in 1..n_elevators |-> start_time]
    /\ dt_iter = 1
    /\ pc = "start"
    /\ call = [time |-> start_time, floor |-> LOBBY_FLOOR]
    /\ waits = << >>
    /\ empty_travel = 0
    /\ result = "none"
    /\ moved = {}
    /\ last = NoDispatch
    /\ lastArr = [e \in 1..n_elevators |-> << >>]

InitStress == StressRun /\ NotAPolicyCall

\* run(strategy) of make_task3_materials.py: every car at the lobby, free at the
\* time of the first call of the log (start_time here)
InitBaseline ==
    /\ engine = "baseline"
    /\ strategy \in BASELINE_STRATEGIES
    /\ \E p \in SimParams : seconds_per_floor = p[1] /\ door_time = p[2]
    /\ start_time \in StartTimes
    /\ n_elevators \in 1..MaxCars
    /\ init_pos = [e \in 1..n_elevators |-> LOBBY_FLOOR]
    /\ hall_range = <<1, MaxFloor>>
    /\ floor = init_pos
    /\ available_time = [e \in 1..n_elevators |-> start_time]
    /\ dt_iter = 1
    /\ pc = "fetch"
    /\ call = [time |-> start_time, floor |-> LOBBY_FLOOR]
    /\ waits = << >>
    /\ empty_travel = 0
    /\ result = "none"
    /\ moved = {}
    /\ last = NoDispatch
    /\ lastArr = [e \in 1..n_elevators |-> << >>]
    /\ NotAPolicyCall

Init == InitStress \/ InitBaseline

\* ------------------------------------------------ run_stress_tests.simulate
runParams == <<engine, strategy, seconds_per_floor, door_time, start_time, n_elevators,
               init_pos, hall_range>>

\* if hall_sim.empty: raise
EmptyWindowRaises ==
    /\ engine = "stress" /\ pc = "start"
    /\ pc' = "done"
    /\ result' = "error"
    /\ UNCHANGED <<runParams, floor, available_time, dt_iter, call, waits, empty_travel,
                   moved, last, lastArr, fnVars>>

\* if hall_sim.empty: return {"AWT": nan, "P95": nan, "LongWaitPct": nan, "N": 0}
EmptyWindow ==
    /\ engine = "stress" /\ pc = "start"
    /\ pc' = "done"
    /\ result' = "nan"
    /\ UNCHANGED <<runParams, floor, available_time, dt_iter, call, waits, empty_travel,
                   moved, last, lastArr, fnVars>>

\* hall_sim is not empty: the fleet is built and the loop over its rows begins
StartRun ==
    /\ engine = "stress" /\ pc = "start"
    /\ pc' = "fetch"
    /\ UNCHANGED <<runParams, floor, available_time, dt_iter, call, waits, empty_travel,
                   result, moved, last, lastArr, fnVars>>

\* for _, r in hall_sim.iterrows(): the next row, in time order
NextCallAt(t, f) ==
    /\ engine = "stress" /\ pc = "fetch"
    /\ Len(waits) < MaxCalls
    /\ t >= call.time
    /\ t <= EndTime
    /\ call' = [time |-> t, floor |-> f]
    /\ pc' = "park"
    /\ UNCHANGED <<runParams, floor, available_time, dt_iter, waits, empty_travel,
                   result, moved, last, lastArr, fnVars>>

NextCall == \E t \in CallTimes, f \in hall_range[1]..hall_range[2] : NextCallAt(t, f)

\* one turn of: while next_dec is not None and next_dec <= call_time:
\*                  apply_parking_policy(next_dec); next_dec = next(dt_iter, None)
ParkingEpochAt(cl) ==
    /\ engine = "stress" /\ pc = "park"
    /\ HasNextDec /\ next_dec <= call.time
    /\ LET t  == next_dec
           tg == parking_targets(t, cl)
           mv == Relocated(t, cl)
       IN  /\ floor' = [e \in Cars |-> IF e \in mv THEN tg[e] ELSE floor[e]]
           /\ available_time' =
                 [e \in Cars |->
                     IF e \in mv
                     THEN RepositionDone(t, travel_time_seconds(floor[e], tg[e],
                                                                seconds_per_floor))
                     ELSE available_time[e]]
           /\ moved' = moved \cup mv
    /\ dt_iter' = dt_iter + 1
    /\ UNCHANGED <<runParams, pc, call, waits, empty_travel, result, last, lastArr, fnVars>>

\* get_cluster_at(next_dec) is whatever the mode classifier predicts
ParkingEpoch == \E cl \in Clusters : ParkingEpochAt(cl)

\* the rest of the loop body: select the car, record the wait, update the car
Dispatch ==
    /\ engine = "stress" /\ pc = "park"
    /\ ~(HasNextDec /\ next_dec <= call.time)
    /\ Serve(call, floor, available_time, moved)
    /\ pc' = "fetch"
    /\ UNCHANGED <<runParams, dt_iter, call, empty_travel, result, fnVars>>

\* the rows are exhausted: the metrics of the recorded waits are returned
Finish ==
    /\ engine = "stress" /\ pc = "fetch"
    /\ Len(waits) >= 1
    /\ pc' = "done"
    /\ result' = "metrics"
    /\ UNCHANGED <<runParams, floor, available_time, dt_iter, call, waits, empty_travel,
                   moved, last, lastArr, fnVars>>

\* ------------------------------------- make_task3_materials.simulate_baselines.run
\* One turn of the loop over the rows: under "lobby" every car idle at the call
\* time is put at the lobby at once (its available time is not changed), then the
\* call is dispatched.
BaselineCall ==
    /\ engine = "baseline" /\ pc = "fetch"
    /\ Len(waits) < MaxCalls
    /\ \E t \in CallTimes, f \in Floors :
          /\ t >= call.time
          /\ Len(waits) = 0 => t = start_time
          /\ LET c   == [time |-> t, floor |-> f]
                 mv  == IF strategy = "lobby"
                        THEN {i \in Cars : available_time[i] <= t /\ floor[i] # LOBBY_FLOOR}
                        ELSE {}
                 pos == [i \in Cars |-> IF i \in mv THEN LOBBY_FLOOR ELSE floor[i]]
                 b   == BestFrom(1, 0, 0, pos, available_time, c)
                 RECURSIVE Sum(_)
                 Sum(S) == IF S = {} THEN 0
                           ELSE LET i == CHOOSE x \in S : TRUE
                                IN  Abs(floor[i] - LOBBY_FLOOR) + Sum(S \ {i})
             IN  /\ call' = c
                 /\ Serve(c, pos, available_time, mv)
                 /\ empty_travel' = empty_travel + Sum(mv) + Abs(pos[b[1]] - f)
    /\ UNCHANGED <<runParams, dt_iter, pc, result, fnVars>>

BaselineFinish ==
    /\ engine = "baseline" /\ pc = "fetch"
    /\ pc' = "done"
    /\ result' = "metrics"
    /\ UNCHANGED <<runParams, floor, available_time, dt_iter, call, waits, empty_travel,
                   moved, last, lastArr, fnVars>>

Next ==
    \/ EmptyWindow
    \/ StartRun
    \/ NextCall
    \/ ParkingEpoch
    \/ Dispatch
    \/ Finish
    \/ BaselineCall
    \/ BaselineFinish

Spec == Init /\ [][Next]_vars

\* ---------------------------------------------- simulate, called twice
\* Two calls of simulate(...) with the same arguments, one after the other in the
\* same process (the loop over strategies and scenarios of main): args holds the
\* arguments, ret the outcome of the first call.
\* All call streams of at most n rows, in time order.
CallStreams(n) ==
    {cs \in UNION {[1..m -> [time : RerunCallTimes, floor : {LOBBY_FLOOR, MaxFloor}]] : m \in 0..n} :
        \A i \in 1..(Len(cs) - 1) : cs[i].time <= cs[i + 1].time}

\* elevators = {e: ElevatorState(floor=init_pos.get(e, LOBBY_FLOOR),
\*                               available_time=start_time) ...}
kept_elevators == [floor |-> floor, available_time |-> available_time]
new_elevators  == [floor |-> init_pos,
                   available_time |-> [e \in 1..n_elevators |-> start_time]]

InitRerun ==
    /\ StressRun
    /\ fn = "simulate"
    /\ \E cs \in CallStreams(MaxCalls) :
       \E cls \in [1..Len(decision_times) -> Clusters] :
          \* get_cluster_at is called under "dynamic" only
          /\ strategy # "dynamic" => \A i \in DOMAIN cls : cls[i] = 0
          /\ args = [calls |-> cs, clusters |-> cls]
    /\ ret = << >>

RerunEmptyWindow == Len(args.calls) = 0 /\ EmptyWindow
RerunStart       == Len(args.calls) > 0 /\ StartRun
RerunCall ==
    /\ Len(waits) < Len(args.calls)
    /\ NextCallAt(args.calls[Len(waits) + 1].time, args.calls[Len(waits) + 1].floor)
RerunEpoch    == HasNextDec /\ ParkingEpochAt(args.clusters[dt_iter])
RerunDispatch == Dispatch
RerunFinish   == Len(waits) = Len(args.calls) /\ Finish

\* the first call has returned; the second call starts from its own locals
SecondRun ==
    /\ fn = "simulate" /\ pc = "done" /\ ret = << >>
    /\ ret' = [waits |-> waits, floor |-> floor, available_time |-> available_time,
               result |-> result]
    /\ floor' = new_elevators.floor
    /\ available_time' = new_elevators.available_time
    /\ dt_iter' = 1
    /\ pc' = "start"
    /\ call' = [time |-> start_time, floor |-> LOBBY_FLOOR]
    /\ waits' = << >>
    /\ result' = "none"
    /\ moved' = {}
    /\ last' = NoDispatch
    /\ lastArr' = [e \in 1..n_elevators |-> << >>]
    /\ UNCHANGED <<runParams, empty_travel, fn, args>>

NextRerun ==
    \/ RerunEmptyWindow
    \/ RerunStart
    \/ RerunCall
    \/ RerunEpoch
    \/ RerunDispatch
    \/ RerunFinish
    \/ SecondRun

SpecRerun == InitRerun /\ [][NextRerun]_vars


\* ===================================================== the policy functions
\* Each is applied once to arguments drawn by the initial state.
NoSimulation ==
    /\ engine = "none" /\ strategy = "none"
    /\ seconds_per_floor = 0 /\ door_time = 0 /\ start_time = 0
    /\ n_elevators = 0 /\ init_pos = << >> /\ hall_range = <<1, 1>>
    /\ floor = << >> /\ available_time = << >>
    /\ dt_iter = 1 /\ pc = "none" /\ call = [time |-> 0, floor |-> LOBBY_FLOOR]
    /\ waits = << >> /\ empty_travel = 0 /\ result = "none"
    /\ moved = {} /\ last = NoDispatch /\ lastArr = << >>

Called == ret # << >>

RECURSIVE SumSeq(_)
SumSeq(q) == IF Len(q) = 0 THEN 0 ELSE q[1] + SumSeq(Tail(q))

\* [x] * n: the empty list when n <= 0
Repeat(x, n) == IF n <= 0 THEN << >> ELSE [i \in 1..n |-> x]

\* All sequences over S of length at most n.
SeqsUpTo(S, n) == UNION {[1..m -> S] : m \in 0..n}

\* ------------------- task3_evaluator_parking.py: parking_lobby, parking_last_stop
\* return [1] * k
parking_lobby_ground(k) == Repeat(0, k)
parking_lobby(k) == Repeat(1, k)

\* A last_stop that parks every car on the top floor.
parking_top_floor(prev_parking, k) == Repeat(MaxEvalFloor, k)

\* if prev_parking and len(prev_parking) == k: return list(prev_parking)
\* return [1] * k
parking_last_stop(prev_parking, k) ==
    IF Len(prev_parking) > 0 /\ Len(prev_parking) = k THEN prev_parking ELSE Repeat(1, k)

\* ------------------------------- task3_evaluator_parking.py: parking_zone
\* math.ceil(num/den) for num >= 0
CeilDiv(num, den) == (num + den - 1) \div den

RECURSIVE Insert(_, _)
Insert(x, q) == IF Len(q) = 0 THEN <<x>>
                ELSE IF x <= q[1] THEN <<x>> \o q
                ELSE <<q[1]>> \o Insert(x, Tail(q))
RECURSIVE sorted(_)
sorted(q) == IF Len(q) = 0 THEN << >> ELSE Insert(q[1], sorted(Tail(q)))

\* int(np.median(arr)) for a non-empty list of floors
Median(arr) ==
    LET q == sorted(arr)
        n == Len(q)
    IN  IF n % 2 = 1 THEN q[(n + 1) \div 2] ELSE (q[n \div 2] + q[n \div 2 + 1]) \div 2

\* med_or_center
med_or_center(arr, lo, hi) == IF Len(arr) > 0 THEN Median(arr) ELSE (lo + hi) \div 2

\* The loop "while alloc.sum() < k": one more car to the zone of largest
\* props - alloc/k, which is the largest counts*k - alloc*total.  np.argmax takes
\* the first of equal doubles; two differences that are equal as rationals need not
\* be equal as doubles, so an exact tie may go to any of the tied zones.
RECURSIVE zone_distribute(_, _, _)
zone_distribute(alloc, counts, k) ==
    IF SumSeq(alloc) >= k THEN {alloc}
    ELSE LET total == SumSeq(counts)
             d(i)  == counts[i] * k - alloc[i] * total
             best  == {i \in 1..3 : \A j \in 1..3 : d(i) >= d(j)}
         IN  UNION {zone_distribute([alloc EXCEPT ![i] = @ + 1], counts, k) : i \in best}

\* the fallback of an empty history: 50/30/20 across the zones
zone_fallback_alloc(k) ==
    <<CeilDiv(5 * k, 10), CeilDiv(3 * k, 10), k - CeilDiv(5 * k, 10) - CeilDiv(3 * k, 10)>>

\* parking_zone(history_floors, k, lobby_max, mid_max, F_min, F_max): the plans it
\* can return, each with the allocation it was built from
parking_zone(history_floors, k) ==
    IF Len(history_floors) = 0
    THEN LET alloc == zone_fallback_alloc(k)
         IN  {[alloc |-> alloc,
               targets |-> Repeat(1, alloc[1])
                           \o Repeat((LOBBY_MAX + MID_MAX) \div 2, alloc[2])
                           \o Repeat((MID_MAX + MaxEvalFloor) \div 2, alloc[3])]}
    ELSE LET lob == SelectSeq(history_floors, LAMBDA f : f <= LOBBY_MAX)
             mid == SelectSeq(history_floors, LAMBDA f : f > LOBBY_MAX /\ f <= MID_MAX)
             upp == SelectSeq(history_floors, LAMBDA f : f > MID_MAX)
             counts == <<Len(lob), Len(mid), Len(upp)>>
             total  == SumSeq(counts)
             floors == [i \in 1..3 |-> (counts[i] * k) \div total]
             p_lob  == 1
             p_mid  == med_or_center(mid, LOBBY_MAX + 1, MID_MAX)
             p_upp  == med_or_center(upp, MID_MAX + 1, MaxEvalFloor)
         IN  {[alloc |-> [i \in 1..3 |-> Max(a[i], 0)],
               targets |-> Repeat(p_lob, a[1]) \o Repeat(p_mid, a[2]) \o Repeat(p_upp, a[3])]
              : a \in zone_distribute(floors, counts, k)}

\* Floors of the recent history: the ends of the three zones.
HistFloors == {1, LOBBY_MAX + 1, MID_MAX, MID_MAX + 1, MaxEvalFloor}

InitZone ==
    /\ NoSimulation
    /\ fn = "parking_zone"
    /\ args \in [history_floors : SeqsUpTo(HistFloors, MaxHist), k : 1..MaxFleet]
    /\ ret = << >>

CallParkingZone ==
    /\ fn = "parking_zone" /\ ~Called
    /\ ret' \in parking_zone(args.history_floors, args.k)
    /\ UNCHANGED <<simVars, fn, args>>

NextZone == CallParkingZone

SpecZone == InitZone /\ [][NextZone]_vars

\* ------------------- task3_evaluator_parking.py: the dynamic (quantile) policy
\* int(round(num / den)) for num >= 0, den > 0: Python rounds a half to the even
\* neighbour.  (For histories of up to 11 floors and fleets of up to 69 cars the
\* double q * (n - 1) rounds as the exact quotient does.)
round_down(num, den) == num \div den
round_half_even(num, den) ==
    LET lo == num \div den
        r2 == 2 * (num % den)
    IN  IF r2 > den THEN lo + 1
        ELSE IF r2 < den THEN lo
        ELSE IF lo % 2 = 0 THEN lo ELSE lo + 1

\* weighted_quantile_floors(floors, k): idxs[i] for q = (i + 0.5) / k, as a
\* position from 0 in the sorted floors
quantile_index(i, k, n) == Min(n - 1, Max(0, round_half_even((2 * i + 1) * (n - 1), 2 * k)))

weighted_quantile_floors(floors, k) ==
    IF Len(floors) = 0 THEN << >>
    ELSE LET floors_sorted == sorted(floors)
         IN  [j \in 1..k |-> floors_sorted[quantile_index(j - 1, k, Len(floors)) + 1]]

\* parking_dynamic(history_floors, k, fallback)
parking_dynamic(history_floors, k, fallback) ==
    IF Len(history_floors) = 0 THEN fallback
    ELSE weighted_quantile_floors(history_floors, k)

\* main, strategy "dynamic": fallback = parking_zone(hist_floors, ...);
\* curr = parking_dynamic(hist_floors, k, fallback)
dynamic_plans(history_floors, k) ==
    {parking_dynamic(history_floors, k, z.targets) : z \in parking_zone(history_floors, k)}

InitDynamic ==
    /\ NoSimulation
    /\ fn = "parking_dynamic"
    /\ args \in [history_floors : SeqsUpTo(HistFloors, MaxHist), k : 1..MaxFleet]
    /\ ret = << >>

CallParkingDynamic ==
    /\ fn = "parking_dynamic" /\ ~Called
    /\ \E targets \in dynamic_plans(args.history_floors, args.k) : ret' = [targets |-> targets]
    /\ UNCHANGED <<simVars, fn, args>>

NextDynamic == CallParkingDynamic

SpecDynamic == InitDynamic /\ [][NextDynamic]_vars

\* --------------------------------------- task3_parking.py: desired allocation
ZONES == <<"Lobby", "Mid", "Upper">>
ZoneIndex(z) == CHOOSE i \in 1..3 : ZONES[i] = z

KnownStates == {"Morning Up-Peak", "Lunch Down-Peak", "Evening Down-Peak",
                "Afternoon Mixed", "Night Idle", "Weekend Low-Demand"}

\* templates, in hundredths, in the order of ZONES
templates(state) ==
    CASE state = "Morning Up-Peak"    -> <<70, 25, 5>>
      [] state = "Lunch Down-Peak"    -> <<20, 60, 20>>
      [] state = "Evening Down-Peak"  -> <<5, 25, 70>>
      [] state = "Afternoon Mixed"    -> <<33, 34, 33>>
      [] state = "Night Idle"         -> <<60, 20, 20>>
      [] state = "Weekend Low-Demand" -> <<50, 30, 20>>
      [] OTHER                        -> <<33, 34, 33>>

\* _proportions_from_state: the adjusted shares adj, in ten-thousandths; the
\* proportion of zone i is adj[i] / SumSeq(adj).
proportions_from_state(state, y_hat) ==
    LET tpl == templates(state)
        primary == CHOOSE i \in 1..3 :
                      /\ \A j \in 1..3 : tpl[i] >= tpl[j]
                      /\ \A j \in 1..(i - 1) : tpl[j] < tpl[i]
    IN  IF y_hat <= 1
        THEN [i \in 1..3 |-> IF i # 1 THEN 40 * tpl[i] ELSE 100 * tpl[i] + 4000]
        ELSE IF y_hat >= 10
        THEN [i \in 1..3 |-> IF i = primary THEN 100 * tpl[i] + 10 * tpl[primary]
                                            ELSE 100 * tpl[i] - 5 * tpl[primary]]
        ELSE [i \in 1..3 |-> 100 * tpl[i]]

\* The fractional parts raw[z] - floored[z] are doubles.  Two of them that are
\* equal as rationals are equal as doubles when the two zones have the same share,
\* and for the fleets up to 69 they compare as equal or in the order of ZONES
\* in all but these cases, where the double of the later zone is the larger:
\*   Evening Down-Peak, y_hat >= 10, n = 25, 30, 35, 40: Mid (0.215 n) over Lobby (0.015 n)
\*   Weekend Low-Demand, y_hat >= 10, n = 20, 60:        Upper (0.175 n) over Mid (0.275 n)
rounding_inversions(state, y_hat, n) ==
    IF state = "Evening Down-Peak" /\ y_hat >= 10 /\ n \in {25, 30, 35, 40} THEN {<<1, 2>>}
    ELSE IF state = "Weekend Low-Demand" /\ y_hat >= 10 /\ n \in {20, 60} THEN {<<2, 3>>}
    ELSE {}

\* the order of sorted(..., key=lambda x: (-x[1], ZONES.index(x[0]))): zone i
\* comes before zone j
frac_before(i, j, rem, inv) ==
    \/ rem[i] > rem[j]
    \/ /\ rem[i] = rem[j]
       /\ IF i < j THEN <<i, j>> \notin inv ELSE <<j, i>> \in inv

\* for i in range(remaining): floored[fracs[i][0]] += 1
gets_extra(rank, remaining) == rank <= remaining

compute_desired_allocation(state, y_hat, n_elev) ==
    LET adj     == proportions_from_state(state, y_hat)
        total   == SumSeq(adj)
        floored == [i \in 1..3 |-> (adj[i] * n_elev) \div total]
        rem     == [i \in 1..3 |-> (adj[i] * n_elev) % total]
        remaining == n_elev - SumSeq(floored)
        inv     == rounding_inversions(state, y_hat, n_elev)
        rank(i) == 1 + Cardinality({j \in 1..3 : j # i /\ frac_before(j, i, rem, inv)})
    IN  [z \in {"Lobby", "Mid", "Upper"} |->
            LET i == ZoneIndex(z)
            IN  floored[i] + (IF gets_extra(rank(i), remaining) THEN 1 ELSE 0)]

InitAlloc ==
    /\ NoSimulation
    /\ fn = "compute_desired_allocation"
    /\ args \in [state : KnownStates \cup {"Unknown"}, y_hat : (-1)..MaxYhat,
                 n_elevators : 0..MaxFleet]
    /\ ret = << >>

CallDesiredAllocation ==
    /\ fn = "compute_desired_allocation" /\ ~Called
    /\ ret' = compute_desired_allocation(args.state, args.y_hat, args.n_elevators)
    /\ UNCHANGED <<simVars, fn, args>>

NextAlloc == CallDesiredAllocation

SpecAlloc == InitAlloc /\ [][NextAlloc]_vars

\* ------------------------------------- task3_parking.py: repositioning moves
ZoneSet == {"Lobby", "Mid", "Upper"}

\* curr_counts[z]
curr_count(current_alloc_list, z) == Len(SelectSeq(current_alloc_list, LAMBDA x : x = z))

\* deficit_zones: each zone, in the order of ZONES, once per missing elevator
RECURSIVE deficit_zones(_, _, _)
deficit_zones(current_alloc_list, desired_alloc, i) ==
    IF i > Len(ZONES) THEN << >>
    ELSE Repeat(ZONES[i], desired_alloc[ZONES[i]] - curr_count(current_alloc_list, ZONES[i]))
         \o deficit_zones(current_alloc_list, desired_alloc, i + 1)

\* indices_by_zone: the elevators of every zone that holds a surplus
indices_of(current_alloc_list, desired_alloc, z) ==
    IF curr_count(current_alloc_list, z) > desired_alloc[z]
    THEN SelectSeq([i \in 1..Len(current_alloc_list) |-> i],
                   LAMBDA i : current_alloc_list[i] = z)
    ELSE << >>

\* the loop over deficit_zones: the source is the first zone of ZONES that still
\* has an indexed elevator, and its last index is popped
RECURSIVE pair_moves(_, _, _)
pair_moves(deficits, indices_by_zone, moves) ==
    IF Len(deficits) = 0 THEN moves
    ELSE LET has == {i \in 1..Len(ZONES) : Len(indices_by_zone[ZONES[i]]) > 0}
         IN  IF has = {} THEN moves
             ELSE LET src == ZONES[CHOOSE i \in has : \A j \in has : i <= j]
                      q   == indices_by_zone[src]
                  IN  pair_moves(Tail(deficits),
                                 [indices_by_zone EXCEPT ![src] = SubSeq(q, 1, Len(q) - 1)],
                                 Append(moves, <<q[Len(q)], deficits[1]>>))

compute_reposition_moves(current_alloc_list, desired_alloc) ==
    pair_moves(deficit_zones(current_alloc_list, desired_alloc, 1),
               [z \in ZoneSet |-> indices_of(current_alloc_list, desired_alloc, z)],
               << >>)

InitMoves ==
    /\ NoSimulation
    /\ fn = "compute_reposition_moves"
    /\ args \in [current_alloc_list : SeqsUpTo(ZoneSet, MaxMoveFleet),
                 desired_alloc : [ZoneSet -> 0..MaxMoveFleet]]
    /\ ret = << >>

CallRepositionMoves ==
    /\ fn = "compute_reposition_moves" /\ ~Called
    /\ ret' = [moves |-> compute_reposition_moves(args.current_alloc_list, args.desired_alloc)]
    /\ UNCHANGED <<simVars, fn, args>>

NextMoves == CallRepositionMoves

SpecMoves == InitMoves /\ [][NextMoves]_vars

\* ------------------------------------------- task2_classifier.py: the rule classifier
\* The ratios r (share of up calls) and p1 (share of calls from floor 1) are in
\* tenths; w is 1 on a weekday and 0 at the weekend.
Tenths == 0..10

\* compute_thresholds: the fixed direction and lobby cut-offs beside the count
\* thresholds
direction_thresholds == [alpha1 |-> alpha1, alpha2 |-> alpha2, alpha3 |-> alpha3, beta1 |-> beta1]

classify_interval(row, thr) ==
    IF row.count < thr.theta1 THEN "Night Idle"
    ELSE IF row.w = 0 THEN "Weekend Low-Demand"
    ELSE IF row.count >= thr.theta2 /\ row.r >= thr.alpha1 /\ row.p1 >= thr.beta1
         THEN "Morning Up-Peak"
    ELSE IF row.count >= thr.theta3 /\ row.r <= thr.alpha2 THEN "Evening Down-Peak"
    ELSE IF row.count >= thr.theta2 /\ thr.alpha2 < row.r /\ row.r < thr.alpha3
         THEN "Lunch Down-Peak"
    ELSE "Afternoon Mixed"

InitClassify ==
    /\ NoSimulation
    /\ fn = "classify_interval"
    /\ \E row \in [count : 0..MaxCount, r : Tenths, p1 : {0, beta1 - 1, beta1, 10}, w : {0, 1}],
          th \in [theta1 : 0..MaxCount, theta2 : 0..MaxCount, theta3 : 0..MaxCount] :
          args = [row |-> row,
                  thr |-> [theta1 |-> th.theta1, theta2 |-> th.theta2, theta3 |-> th.theta3,
                           alpha1 |-> direction_thresholds.alpha1,
                           alpha2 |-> direction_thresholds.alpha2,
                           alpha3 |-> direction_thresholds.alpha3,
                           beta1  |-> direction_thresholds.beta1]]
    /\ ret = << >>

CallClassifyInterval ==
    /\ fn = "classify_interval" /\ ~Called
    /\ ret' = [state |-> classify_interval(args.row, args.thr)]
    /\ UNCHANGED <<simVars, fn, args>>

NextClassify == CallClassifyInterval

SpecClassify == InitClassify /\ [][NextClassify]_vars

\* -------------------------------------------------- task1_model.py: predict_next
\* A timestamp on the 5-minute grid is its slot number, slot 0 being a Monday at
\* 00:00; forecasts and AR coefficients are in tenths.
tau_of(ts) == ts % N_INTERVALS_PER_DAY
\* 1 if ts.weekday() < 5 else 0
w_weekday(ts) == 1
w_of(ts) == IF (ts \div N_INTERVALS_PER_DAY) % 7 < 5 THEN 1 ELSE 0

\* y_hat = max(0.0, float(y_hat))
not_clamped(y_hat) == y_hat
clamp_forecast(y_hat) == Max(0, y_hat)

predict_next(last_ts, last_count, mu_w, phi_w) ==
    LET next_ts == last_ts + 1
        mu_t    == mu_w[w_of(last_ts)][tau_of(last_ts)]
        mu_tp1  == mu_w[w_of(next_ts)][tau_of(next_ts)]
        phi     == phi_w[w_of(last_ts)]
    IN  [next_ts |-> next_ts,
         y_hat   |-> clamp_forecast(10 * mu_tp1 + phi * (last_count - mu_t))]

\* last slots: a Monday 00:00, a Monday 23:55, a Friday 23:55 (the next slot is at
\* the weekend) and a Sunday 23:55 (the next slot is a weekday)
LastSlots == {0, N_INTERVALS_PER_DAY - 1, 5 * N_INTERVALS_PER_DAY - 1, 7 * N_INTERVALS_PER_DAY - 1}
SlotTaus == {0, 1, N_INTERVALS_PER_DAY - 1}

InitPredict ==
    /\ NoSimulation
    /\ fn = "predict_next"
    /\ args \in [last_ts : LastSlots, last_count : 0..MaxCount,
                 mu_w : [{0, 1} -> [SlotTaus -> {0, MaxMu}]],
                 phi_w : [{0, 1} -> {-MaxPhi, 0, MaxPhi}]]
    /\ ret = << >>

CallPredictNext ==
    /\ fn = "predict_next" /\ ~Called
    /\ ret' = predict_next(args.last_ts, args.last_count, args.mu_w, args.phi_w)
    /\ UNCHANGED <<simVars, fn, args>>

NextPredict == CallPredictNext

SpecPredict == InitPredict /\ [][NextPredict]_vars

\* ------------------------------------- task1_model.py: estimate_baseline_and_phi
\* A training series is a sequence of rows [count, w, tau].  Residuals are kept
\* exact: every residual is multiplied by ResidualScale, a multiple of every
\* group size.
RECURSIVE Factorial(_)
Factorial(n) == IF n <= 1 THEN 1 ELSE n * Factorial(n - 1)
ResidualScale == Factorial(MaxSeries)

\* the sum of the values of a function with a finite domain
RECURSIVE SumFn(_)
SumFn(f) == IF DOMAIN f = {} THEN 0
            ELSE LET x == CHOOSE y \in DOMAIN f : TRUE
                 IN  f[x] + SumFn([y \in DOMAIN f \ {x} |-> f[y]])

\* mask = (w == w) & (tau == tau): the rows of one regime and one slot of the day
group_of(series_df, w, tau) == {t \in 1..Len(series_df) : series_df[t].w = w /\ series_df[t].tau = tau}

\* e = y - mu_vals, times ResidualScale
residual(series_df, t) ==
    LET g == group_of(series_df, series_df[t].w, series_df[t].tau)
        total == SumFn([u \in g |-> series_df[u].count])
    IN  ResidualScale * series_df[t].count - (ResidualScale * total) \div Cardinality(g)

\* mask = valid & (w_arr == w) & (w_prev == w)
regime_pairs(series_df, w) ==
    {t \in 2..Len(series_df) : series_df[t].w = w /\ series_df[t - 1].w = w}

\* if denom == 0
never_zero(denom) == FALSE
zero_denominator(denom) == denom = 0

\* phi of one regime, as the fraction num / den, with whether a division was made
phi_of(series_df, w) ==
    LET mask  == regime_pairs(series_df, w)
        denom == SumFn([t \in mask |-> residual(series_df, t - 1) * residual(series_df, t - 1)])
    IN  IF mask = {} THEN [num |-> 0, den |-> 1, divided |-> FALSE]
        ELSE IF zero_denominator(denom) THEN [num |-> 0, den |-> 1, divided |-> FALSE]
        ELSE [num |-> SumFn([t \in mask |-> residual(series_df, t - 1) * residual(series_df, t)]),
              den |-> denom, divided |-> TRUE]

estimate_baseline_and_phi(series_df) == [phi_w |-> [w \in {0, 1} |-> phi_of(series_df, w)]]

TrainingRows == [count : 0..MaxCount, w : {0, 1}, tau : {0, 1}]

InitEstimate ==
    /\ NoSimulation
    /\ fn = "estimate_baseline_and_phi"
    /\ \E series_df \in SeqsUpTo(TrainingRows, MaxSeries) :
          /\ Len(series_df) >= 1
          /\ args = [series_df |-> series_df]
    /\ ret = << >>

CallEstimate ==
    /\ fn = "estimate_baseline_and_phi" /\ ~Called
    /\ ret' = estimate_baseline_and_phi(args.series_df)
    /\ UNCHANGED <<simVars, fn, args>>

NextEstimate == CallEstimate

SpecEstimate == InitEstimate /\ [][NextEstimate]_vars

\* ----------------------------------------------- task1_model.py: build_5min_series
\* Call times are in minutes.
\* df[time_col].dt.floor('5T')
floor_5T(t) == t - (t % SLOT_MINUTES)

\* counts = df.groupby('interval_start').size(), at one interval start
calls_in(times, start) == Cardinality({i \in 1..Len(times) : floor_5T(times[i]) = start})

\* pd.date_range(start=lo, end=hi, freq='5T')
range_ends(lo, hi) == IF lo = hi THEN <<lo>> ELSE <<lo, hi>>
date_range(lo, hi) == [i \in 1..((hi - lo) \div SLOT_MINUTES + 1) |-> lo + (i - 1) * SLOT_MINUTES]

\* the rows of the returned frame: counts reindexed over the full range, 0 where
\* no call fell
build_5min_series(times) ==
    LET starts == {floor_5T(times[i]) : i \in 1..Len(times)}
        lo  == CHOOSE x \in starts : \A y \in starts : x <= y
        hi  == CHOOSE x \in starts : \A y \in starts : x >= y
        idx == date_range(lo, hi)
    IN  [i \in 1..Len(idx) |->
            [interval_start |-> idx[i],
             count |-> calls_in(times, idx[i]),
             tau |-> (idx[i] \div SLOT_MINUTES) % N_INTERVALS_PER_DAY]]

InitSeries ==
    /\ NoSimulation
    /\ fn = "build_5min_series"
    /\ \E times \in SeqsUpTo(0..MaxMinute, MaxCallLog) :
          /\ Len(times) >= 1
          /\ args = [times |-> times]
    /\ ret = << >>

CallBuildSeries ==
    /\ fn = "build_5min_series" /\ ~Called
    /\ ret' = [series |-> build_5min_series(args.times)]
    /\ UNCHANGED <<simVars, fn, args>>

NextSeries == CallBuildSeries

SpecSeries == InitSeries /\ [][NextSeries]_vars

\* --------------------------------- make_report_tables_v2.py: Task 3 long-wait tables
\* Wait times are whole seconds; a percentile is carried in hundredths of a second.
\* pctl(x, q) = np.percentile(x, q) (linear interpolation between the two order
\* statistics around position q/100 * (n - 1)) of a non-empty column, times 100.
pctl(x, q) ==
    LET s    == sorted(x)
        n    == Len(s)
        h    == q * (n - 1)
        lo   == h \div 100 + 1
        hi   == Min(lo + 1, n)
        frac == h % 100
    IN  100 * s[lo] + frac * (s[hi] - s[lo])

\* mode.lower().strip()
lower_strip(mode) == IF mode \in {"p95_lobby", "P95_LOBBY "} THEN "p95_lobby" ELSE mode

wait_times(df) == [i \in 1..Len(df) |-> df[i].wait_time]

\* compute_long_wait_threshold: the threshold in hundredths, or the ValueError
\* raised when the mode is neither of the two supported ones.
threshold_over_all(df, mode, absolute_value) ==
    IF lower_strip(mode) = "absolute" THEN [raised |-> "none", value |-> 100 * absolute_value]
    ELSE IF lower_strip(mode) = "p95_lobby" THEN
        [raised |-> "none", value |-> pctl(wait_times(df), 95)]
    ELSE [raised |-> "ValueError", value |-> 0]
compute_long_wait_threshold(df, mode, absolute_value) ==
    IF lower_strip(mode) = "absolute" THEN [raised |-> "none", value |-> 100 * absolute_value]
    ELSE IF lower_strip(mode) = "p95_lobby" THEN
        LET is_lobby(row) == row.strategy = "lobby"
            lobby == SelectSeq(df, is_lobby)
        IN  [raised |-> "none",
             value  |-> IF Len(lobby) = 0 THEN pctl(wait_times(df), 95)
                        ELSE pctl(wait_times(lobby), 95)]
    ELSE [raised |-> "ValueError", value |-> 0]

\* summarize_task3: one row per strategy of the frame, with N and LongWait% (kept
\* as the fraction 100 * sum(is_long_wait) / N).  is_long_wait is the column of the
\* log when the log has one (<<v>>: the column, holding v on every row; << >>: no
\* such column), else wait_time >= long_wait_threshold.
summarize_task3(df, is_long_wait_column, long_wait_threshold) ==
    LET is_long_wait(row) == IF Len(is_long_wait_column) > 0
                             THEN is_long_wait_column[1] = 1
                             ELSE 100 * row.wait_time >= long_wait_threshold
        groups == {df[i].strategy : i \in 1..Len(df)}
    IN  [strat \in groups |->
            LET g == {i \in 1..Len(df) : df[i].strategy = strat}
            IN  [N |-> Cardinality(g),
                 LongWaitPct |-> [num |-> 100 * Cardinality({i \in g : is_long_wait(df[i])}),
                                  den |-> Cardinality(g)]]]

\* build_task3_tables: the overall table, and the table of an operating window
\* (the three windows are handled by the same loop body; one mask is modelled).
\* An empty window is skipped.
build_task3_tables(df, is_long_wait_column, long_wait_abs, long_wait_mode) ==
    LET thr_overall == compute_long_wait_threshold(df, long_wait_mode, long_wait_abs)
        in_window(row) == row.peak_window
        gdf   == SelectSeq(df, in_window)
        thr_w == compute_long_wait_threshold(gdf, long_wait_mode, long_wait_abs)
    IN  IF thr_overall.raised # "none"
        THEN [error |-> thr_overall.raised, overall |-> << >>, windows |-> << >>]
        ELSE [error   |-> "none",
              overall |-> summarize_task3(df, is_long_wait_column, thr_overall.value),
              windows |-> IF Len(gdf) = 0 THEN << >>
                          ELSE <<[LongWaitThreshold |-> thr_w.value,
                                  table |-> summarize_task3(gdf, is_long_wait_column,
                                                            thr_w.value)]>>]

WaitTimes == {0, 1, 3}
LogRows == [strategy : {"lobby", "dynamic"}, wait_time : WaitTimes, peak_window : BOOLEAN]
LongWaitModes == {"p95_lobby", "P95_LOBBY ", "absolute", "p99_lobby"}
FlagColumns == {<< >>, <<0>>, <<1>>}

InitReport ==
    /\ NoSimulation
    /\ fn = "build_task3_tables"
    /\ \E df \in SeqsUpTo(LogRows, MaxLog) :
       \E col \in FlagColumns :
       \E mode \in LongWaitModes :
          /\ Len(df) >= 1
          /\ args = [df |-> df, is_long_wait |-> col, long_wait |-> 1,
                     long_wait_mode |-> mode]
    /\ ret = << >>

CallBuildTask3Tables ==
    /\ fn = "build_task3_tables" /\ ~Called
    /\ ret' = build_task3_tables(args.df, args.is_long_wait, args.long_wait,
                                 args.long_wait_mode)
    /\ UNCHANGED <<simVars, fn, args>>

NextReport == CallBuildTask3Tables

SpecReport == InitReport /\ [][NextReport]_vars

\* ------------------------------------ task3_evaluator_parking.py: main, the loop
\* match_sorted_distance: both lists sorted, paired in order over the shorter one
match_first_distance(prev, curr) ==
    IF Len(prev) = 0 \/ Len(curr) = 0 THEN 0 ELSE Abs(prev[1] - curr[1])
match_sorted_distance(prev, curr) ==
    IF Len(prev) = 0 \/ Len(curr) = 0 THEN 0
    ELSE LET a == sorted(prev)
             b == sorted(curr)
             n == Min(Len(a), Len(b))
         IN  SumSeq([i \in 1..n |-> Abs(a[i] - b[i])])

\* np.concatenate(floors_by_bin[lo:hi]) with 0-based lo <= hi
RECURSIVE concatenate(_, _, _)
concatenate(floors_by_bin, lo, hi) ==
    IF lo >= hi THEN << >>
    ELSE floors_by_bin[lo + 1] \o concatenate(floors_by_bin, lo + 1, hi)

\* history window [i - history_bins, i) of the 0-based bin i:
\* j0 = max(0, i - history_bins); concatenate(floors_by_bin[j0:i]) if i > j0 else []
hist_through_bin(floors_by_bin, i, history_bins) ==
    concatenate(floors_by_bin, Max(0, i - history_bins), i + 1)
hist_floors(floors_by_bin, i, history_bins) ==
    LET j0 == Max(0, i - history_bins)
    IN  IF i > j0 THEN concatenate(floors_by_bin, j0, i) ELSE << >>

EvalStrategies == {"last_stop", "lobby", "zone", "dynamic"}

\* The rows logged for the calls of a bin under a strategy whose floors are curr:
\* wait_time = min_j |park_j - floor| * v_floor + door, and the per-call share
\* empty_travel / len(calls), kept as a fraction.
bin_rows(strat, i, calls, curr, cost, v_floor, door) ==
    [c \in 1..Len(calls) |->
        [strategy  |-> strat, bin |-> i, call_no |-> c, floor |-> calls[c],
         wait_time |-> LET d == {Abs(curr[j] - calls[c]) : j \in 1..Len(curr)}
                       IN  (CHOOSE x \in d : \A y \in d : x <= y) * v_floor + door,
         empty_travel |-> [num |-> cost, den |-> Len(calls)]]]

\* Calls of one bin, in file order; every log has a call at the top floor, so that
\* F_max = MaxEvalFloor.
BinCalls == {<<1>>, <<MaxEvalFloor>>, <<LOBBY_MAX + 1, MaxEvalFloor>>, <<MID_MAX, 1, 1>>}
HistoryBins == {0, 1, 2}

\* main up to the loop: ret holds the loop's variables (i bins done, the
\* per-strategy parking memory, the history of the last bin, the rows logged)
InitEval ==
    /\ NoSimulation
    /\ fn = "evaluate"
    /\ \E bins \in SeqsUpTo(BinCalls, MaxBins) :
       \E k \in 1..MaxParked, hb \in HistoryBins :
          /\ \E b \in 1..Len(bins) : \E c \in 1..Len(bins[b]) : bins[b][c] = MaxEvalFloor
          /\ args = [floors_by_bin |-> bins, k |-> k, history_bins |-> hb,
                     v_floor |-> SECONDS_PER_FLOOR_BASE, door |-> DOOR_TIME_BASE]
          /\ ret = [i |-> 0, prev_parking |-> [s \in EvalStrategies |-> Repeat(1, k)],
                    hist_floors |-> << >>, logs |-> << >>]

\* One turn of `for i, row in interval.iterrows()`: the history of bin i, the plan
\* of each strategy, its empty travel against the previous plan, and the rows of
\* the bin's calls.
EvaluateBin ==
    /\ fn = "evaluate" /\ ret.i < Len(args.floors_by_bin)
    /\ LET i    == ret.i
           hist == hist_floors(args.floors_by_bin, i, args.history_bins)
       IN  \E z \in parking_zone(hist, args.k) :
              LET curr == [s \in EvalStrategies |->
                             IF s = "last_stop"
                             THEN parking_last_stop(ret.prev_parking[s], args.k)
                             ELSE IF s = "lobby" THEN parking_lobby(args.k)
                             ELSE IF s = "zone" THEN z.targets
                             ELSE parking_dynamic(hist, args.k, z.targets)]
                  rows(s) == bin_rows(s, i, args.floors_by_bin[i + 1], curr[s],
                                      match_sorted_distance(ret.prev_parking[s], curr[s]),
                                      args.v_floor, args.door)
              IN  ret' = [i |-> i + 1, prev_parking |-> curr, hist_floors |-> hist,
                          logs |-> ret.logs \o rows("last_stop") \o rows("lobby")
                                     \o rows("zone") \o rows("dynamic")]
    /\ UNCHANGED <<simVars, fn, args>>

NextEval == EvaluateBin

SpecEval == InitEval /\ [][NextEval]_vars

\* ------------------------------ make_report_tables_v2.py: tag_windows, transition
\* Bins are slot numbers.  lab is the state label of every bin that holds calls
\* (one label per bin: drop_duplicates('bin5') keeps its first row), in bin order.
Labels == {"Mixed", "Idle/Low"}

\* .sort_values('bin5'): the bins of the log in increasing order
RECURSIVE sort_values(_)
sort_values(S) ==
    IF S = {} THEN << >>
    ELSE LET m == CHOOSE x \in S : \A y \in S : x <= y
         IN  <<m>> \o sort_values(S \ {m})

\* lab.shift(1): the label of the preceding bin of the log; the first bin gets the
\* missing value
shift(bins, lab) == [i \in 1..Len(bins) |-> IF i = 1 THEN "NaN" ELSE lab[bins[i - 1]]]

\* changed = lab != lab.shift(1); change_bins = lab.index[changed.fillna(False)]
\* (a comparison with the missing value is True, not missing: fillna changes nothing)
change_bins(bins, lab) ==
    {bins[i] : i \in {j \in 1..Len(bins) : lab[bins[j]] # shift(bins, lab)[j]}}

\* df['transition_window'] = df['bin5'].isin(bin_set), per bin of the log; False
\* everywhere when the log has neither a 'mode' nor a 'state' column
tag_windows(lab, label_col) ==
    LET present == DOMAIN lab
        bins    == sort_values(present)
        bin_set == IF label_col = "None" THEN {}
                   ELSE {b + k : b \in change_bins(bins, lab), k \in -3..3}
    IN  [b \in present |-> b \in bin_set]

InitTag ==
    /\ NoSimulation
    /\ fn = "tag_windows"
    /\ \E present \in (SUBSET (0..MaxSlot)) \ {{}} :
       \E lab \in [present -> Labels] :
       \E label_col \in {"state", "None"} :
          args = [lab |-> lab, label_col |-> label_col]
    /\ ret = << >>

CallTagWindows ==
    /\ fn = "tag_windows" /\ ~Called
    /\ ret' = [transition_window |-> tag_windows(args.lab, args.label_col)]
    /\ UNCHANGED <<simVars, fn, args>>

NextTag == CallTagWindows

SpecTag == InitTag /\ [][NextTag]_vars

\* ======================================================= dispatch simulator
\* Earliest possible arrival of car e at the last dispatched call, from the fleet
\* as it was when the car was selected.
EstArrival(e) ==
    (IF last.preAvail[e] >= last.time THEN last.preAvail[e] ELSE last.time)
    + (IF last.preFloor[e] >= last.floor THEN last.preFloor[e] - last.floor
                                         ELSE last.floor - last.preFloor[e]) * seconds_per_floor

Dispatched == last.car # 0
\* the fleet has not been touched since the last dispatch
JustDispatched == Dispatched /\ pc \in {"fetch", "done"}

\* C1: the car selected for a call has the minimum earliest arrival
\* max(available_time, call_time) + |floor - call_floor| * seconds_per_floor over
\* the whole fleet, and among the cars sharing that minimum it has the lowest index.
C1_MinArrivalLowestIndex ==
    Dispatched =>
        /\ last.car \in Cars
        /\ \A e \in Cars : EstArrival(last.car) <= EstArrival(e)
        /\ \A e \in Cars : e < last.car => EstArrival(e) > EstArrival(last.car)

\* C1 witness: two cars tie for the minimum arrival and car 1 was selected.
C1_Witness ==
    /\ Dispatched /\ n_elevators >= 2
    /\ EstArrival(1) = EstArrival(2)
    /\ last.car = 1
    /\ Len(waits) >= 2

\* C2: a call at time c on floor f dispatched to the selected car with arrival
\* time a records wait_time = a - c, leaves the car on floor f and sets its
\* available time to a + door_time.
C2_DispatchEffect ==
    JustDispatched =>
        LET a == EstArrival(last.car)
        IN  /\ waits[Len(waits)] = a - last.time
            /\ floor[last.car] = last.floor
            /\ available_time[last.car] = a + door_time

\* C2 witness: a dispatch with a real travel and a real door time, by a car that
\* was still busy when the call came.
C2_Witness ==
    /\ JustDispatched
    /\ door_time > 0
    /\ last.preFloor[last.car] # last.floor /\ seconds_per_floor > 0
    /\ last.preAvail[last.car] > last.time

\* C3: every recorded wait_time is >= 0, whatever the strategy, the call sequence
\* and the parking epochs between the calls.
C3_WaitNonNegative ==
    \A i \in 1..Len(waits) : waits[i] >= 0

\* C3 witness: under the dynamic strategy a call was served by a car that a
\* parking epoch had repositioned, with a positive wait.
C3_Witness ==
    /\ strategy = "dynamic" /\ Dispatched
    /\ last.car \in last.moved
    /\ last.wait > 0

\* C4: each car's available time is at least the arrival time of the last call
\* assigned to it, after any sequence of dispatches and repositionings.
C4_AvailableAfterLastArrival ==
    \A e \in Cars : lastArr[e] # << >> => available_time[e] >= lastArr[e][1]

\* C4 witness: a car that served a call has since been repositioned by a parking epoch.
C4_Witness ==
    \E e \in Cars : lastArr[e] # << >> /\ e \in moved /\ lastArr[e][1] > 0

\* The end-to-end scenario of C5: base parameters, one car initially at floor 1,
\* strategy lobby, a single call at floor 5 at t = 0.
C5_Scenario ==
    /\ seconds_per_floor = SECONDS_PER_FLOOR_BASE /\ door_time = DOOR_TIME_BASE
    /\ n_elevators = 1 /\ init_pos[1] = 1
    /\ strategy = "lobby"
    /\ Len(waits) = 1 /\ last.time = 0 /\ last.floor = 5
    /\ pc \in {"fetch", "done"}

\* C5 as stated: in the scenario the recorded wait_time is
\* |1-5| * 1.5 + 8.0 = 14.0 s (28 ticks).
C5_WaitIncludesDoor ==
    C5_Scenario => waits[1] = 4 * SECONDS_PER_FLOOR_BASE + DOOR_TIME_BASE

\* C5 as amended: in the scenario the recorded wait_time is the travel time
\* |1-5| * 1.5 = 6.0 s (12 ticks); the door time is not part of the wait, it
\* delays the car, which is available again at 6.0 + 8.0 = 14.0 s.
C5_WaitIsTravelOnly ==
    C5_Scenario =>
        /\ waits[1] = 4 * SECONDS_PER_FLOOR_BASE
        /\ available_time[1] = 4 * SECONDS_PER_FLOOR_BASE + DOOR_TIME_BASE

\* C5 witness: the scenario has run, in the stress-test simulator.
C5_Witness == C5_Scenario /\ engine = "stress" /\ pc = "done"

\* The scenario of C6: one car, two successive calls to the same floor, the car
\* not repositioned between them.
C6_Scenario ==
    /\ n_elevators = 1 /\ Len(waits) >= 2
    /\ last.prevFloor = last.floor
    /\ last.moved = {}

\* C6 as stated: the second wait is the part of the first call's door time
\* [a1, a1 + door_time] still to come at the second call's time if the car is
\* still busy, and 0 if it is idle.
C6_WaitIsDoorResidual ==
    C6_Scenario =>
        last.wait = IF last.prevArr + door_time > last.time
                    THEN Min(door_time, last.prevArr + door_time - last.time)
                    ELSE 0

\* C6 as amended: the second wait has no travel component and is the time left
\* until the car has finished the first call, a1 + door_time - c2 if positive, else
\* 0; this is a residual of the door time only when the second call comes after
\* the car has reached the first (c2 >= a1), and otherwise also holds the rest of
\* the car's travel to the first call.
C6_WaitIsServiceResidual ==
    C6_Scenario =>
        /\ last.preFloor[1] = last.floor
        /\ last.wait = Max(0, last.prevArr + door_time - last.time)

\* C6 witness: the second call comes while the doors of the first are open.
C6_Witness ==
    /\ C6_Scenario
    /\ last.prevArr <= last.time /\ last.time < last.prevArr + door_time
    /\ last.wait > 0

\* C7: for every fleet size k from 1 to 64 and every recent-floor history, the
\* empty one included, the plan of parking_zone gives each of Lobby, Mid and Upper
\* a non-negative number of cars, the numbers sum to k, and the returned target
\* list has exactly k entries.
C7_ZoneAllocationSumsToK ==
    (fn = "parking_zone" /\ Called /\ args.k \in 1..64) =>
        /\ \A i \in 1..3 : ret.alloc[i] >= 0
        /\ SumSeq(ret.alloc) = args.k
        /\ Len(ret.targets) = args.k

\* the largest-remainder allocation over the exact shares adj[z] * n / total,
\* ties in the order of ZONES
largest_remainder(state, y_hat, n) ==
    LET adj     == proportions_from_state(state, y_hat)
        total   == SumSeq(adj)
        rem     == [i \in 1..3 |-> (adj[i] * n) % total]
        remaining == n - SumSeq([i \in 1..3 |-> (adj[i] * n) \div total])
        ahead(i) == {j \in 1..3 : rem[j] > rem[i] \/ (rem[j] = rem[i] /\ j < i)}
    IN  [i \in 1..3 |-> (adj[i] * n) \div total
                        + (IF Cardinality(ahead(i)) < remaining THEN 1 ELSE 0)]

\* C8: for every state label, every y_hat and every n_elevators >= 0,
\* compute_desired_allocation returns non-negative counts for Lobby, Mid and Upper
\* that sum to n_elevators: the floor of each zone's proportional share, plus one
\* car each for the zones of largest fractional remainder, ties broken in the order
\* Lobby, Mid, Upper.
C8_LargestRemainderAllocation ==
    (fn = "compute_desired_allocation" /\ Called) =>
        /\ \A z \in ZoneSet : ret[z] >= 0
        /\ ret["Lobby"] + ret["Mid"] + ret["Upper"] = args.n_elevators
        /\ \A i \in 1..3 :
              ret[ZONES[i]] = largest_remainder(args.state, args.y_hat, args.n_elevators)[i]

\* current_alloc_list after the moves have been carried out
RECURSIVE apply_moves(_, _)
apply_moves(current_alloc_list, moves) ==
    IF Len(moves) = 0 THEN current_alloc_list
    ELSE apply_moves([current_alloc_list EXCEPT ![moves[1][1]] = moves[1][2]], Tail(moves))

total_surplus(current_alloc_list, desired_alloc) ==
    LET over(z) == curr_count(current_alloc_list, z) - desired_alloc[z]
    IN  Max(over("Lobby"), 0) + Max(over("Mid"), 0) + Max(over("Upper"), 0)

\* C9: whenever current_alloc_list has as many elevators as desired_alloc sums to,
\* carrying out the moves of compute_reposition_moves gives per-zone counts equal
\* to desired_alloc, no elevator is moved twice, and the number of moves is the
\* total surplus over the zones.
C9_MovesReachDesired ==
    (/\ fn = "compute_reposition_moves" /\ Called
     /\ Len(args.current_alloc_list)
          = args.desired_alloc["Lobby"] + args.desired_alloc["Mid"] + args.desired_alloc["Upper"]) =>
        /\ \A z \in ZoneSet :
              curr_count(apply_moves(args.current_alloc_list, ret.moves), z) = args.desired_alloc[z]
        /\ \A i, j \in 1..Len(ret.moves) : i # j => ret.moves[i][1] # ret.moves[j][1]
        /\ Len(ret.moves) = total_surplus(args.current_alloc_list, args.desired_alloc)


\* C10: a run requested with a parking policy name the engine does not implement
\* fails at once: it never dispatches calls and returns wait-time metrics.
C10_UnknownStrategyFails ==
    strategy \notin IMPLEMENTED => result # "metrics"
\* the floors the quantile rule of the dynamic policy gives the cars idle at an
\* epoch, in the order of the idle list
AtQuantileFloors(fl, t, cl) ==
    LET id == idle(t)
        tg == dynamic_targets(cl, Len(id))
    IN  \A j \in 1..Len(id) : fl[id[j]] = tg[j]

\* C11: under strategy dynamic_rule, a decision epoch leaves every idle car on a
\* quantile floor of the floor-demand distribution learned for the current traffic
\* state (cluster).
C11_DynamicRuleRelocatesIdle ==
    [][(strategy = "dynamic_rule" /\ pc = "park" /\ dt_iter' = dt_iter + 1) =>
          \E cl \in Clusters : AtQuantileFloors(floor', next_dec, cl)]_vars


\* C12: when no call falls inside the simulated window, simulate does not raise: it
\* returns AWT, P95 and LongWaitPct as NaN with N = 0 (no wait recorded, no car
\* touched), for every strategy.
C12_EmptyWindowReturnsNaN ==
    (engine = "stress" /\ pc = "done" /\ Len(waits) = 0) =>
        /\ result = "nan"
        /\ floor = init_pos
        /\ \A e \in Cars : available_time[e] = start_time

\* C12 witness: a run of a strategy with parking logic ended on the empty window.
C12_Witness ==
    /\ engine = "stress" /\ pc = "done" /\ Len(waits) = 0
    /\ strategy = "dynamic" /\ result = "nan"


\* position p (from 0) of a sorted list of n floors is at the (i + 0.5) / k
\* quantile: p is an integer nearest to (i + 0.5) / k * (n - 1)
AtQuantilePosition(p, i, k, n) ==
    /\ p \in 0..(n - 1)
    /\ 2 * k * p - (2 * i + 1) * (n - 1) <= k
    /\ (2 * i + 1) * (n - 1) - 2 * k * p <= k

\* C13: for a non-empty history of n floors and a fleet of k >= 1 the dynamic
\* strategy returns exactly k floors, the i-th (i = 0..k-1) the element of the
\* sorted history at the (i + 0.5) / k quantile position; every returned floor
\* occurs in the history and the floors are non-decreasing in i.  For an empty
\* history it returns the plan of the zone strategy.
C13_DynamicQuantileFloors ==
    (fn = "parking_dynamic" /\ Called) =>
        LET h == args.history_floors
            k == args.k
            n == Len(h)
            t == ret.targets
        IN  IF n > 0
            THEN /\ Len(t) = k
                 /\ \A i \in 0..(k - 1) :
                       \E p \in 0..(n - 1) : AtQuantilePosition(p, i, k, n) /\ t[i + 1] = sorted(h)[p + 1]
                 /\ \A j \in 1..k : \E m \in 1..n : t[j] = h[m]
                 /\ \A j \in 1..(k - 1) : t[j] <= t[j + 1]
            ELSE \E z \in parking_zone(h, k) : t = z.targets

\* C13 witness: a plan for several cars drawn from a history of several different
\* floors, not all cars on one floor.
C13_Witness ==
    /\ fn = "parking_dynamic" /\ Called
    /\ Len(args.history_floors) >= 3 /\ args.k >= 3
    /\ ret.targets[1] < ret.targets[2] /\ ret.targets[2] < ret.targets[args.k]


\* a slot of low volume: its count is not at or above both high-activity thresholds
low_volume(row, thr) == row.count < thr.theta2 \/ row.count < thr.theta3

\* the label of the first matching rule in the order of C14
first_match_label(row, thr) ==
    IF row.count < thr.theta1 THEN "Night Idle"
    ELSE IF row.w = 0 /\ low_volume(row, thr) THEN "Weekend Low-Demand"
    ELSE IF row.count >= thr.theta2 /\ row.r >= thr.alpha1 /\ row.p1 >= thr.beta1
         THEN "Morning Up-Peak"
    ELSE IF row.count >= thr.theta3 /\ row.r <= thr.alpha2 THEN "Evening Down-Peak"
    ELSE IF row.count >= thr.theta2 /\ thr.alpha2 < row.r /\ row.r < thr.alpha3
         THEN "Lunch Down-Peak"
    ELSE "Afternoon Mixed"

\* C14: classify_interval returns the label of the first matching rule in the order
\* count < theta1 -> Night Idle; weekend and low -> Weekend Low-Demand; count >=
\* theta2, up-ratio >= alpha1, lobby fraction >= beta1 -> Morning Up-Peak; count >=
\* theta3, up-ratio <= alpha2 -> Evening Down-Peak; count >= theta2, alpha2 <
\* up-ratio < alpha3 -> Lunch Down-Peak; otherwise Afternoon Mixed.  In particular
\* a slot is labelled Weekend Low-Demand only if it is a weekend slot of low volume.
C14_FirstMatchingRule ==
    (fn = "classify_interval" /\ Called) =>
        /\ ret.state = first_match_label(args.row, args.thr)
        /\ ret.state = "Weekend Low-Demand" => (args.row.w = 0 /\ low_volume(args.row, args.thr))


\* C15: predict_next never returns a negative forecast, for any baseline means, any
\* AR coefficients (negative ones and ones above 1 included) and any last count >= 0.
C15_ForecastNonNegative ==
    (fn = "predict_next" /\ Called) => ret.y_hat >= 0

\* C15 witness: a forecast whose value before the clamp was negative, under a
\* coefficient above 1, is returned as 0.
C15_Witness ==
    /\ fn = "predict_next" /\ Called
    /\ args.phi_w[w_of(args.last_ts)] > 10
    /\ 10 * args.mu_w[w_of(args.last_ts + 1)][tau_of(args.last_ts + 1)]
         + args.phi_w[w_of(args.last_ts)]
             * (args.last_count - args.mu_w[w_of(args.last_ts)][tau_of(args.last_ts)]) < 0
    /\ ret.y_hat = 0


\* all residuals of the rows of regime r are one and the same value
ResidualsIdentical(series_df, r) ==
    \A t, u \in 1..Len(series_df) :
        (series_df[t].w = r /\ series_df[u].w = r) =>
            residual(series_df, t) = residual(series_df, u)

\* C16: estimate_baseline_and_phi returns ar_coefficient[r] = 0.0, without dividing,
\* whenever all residuals of regime r in the training series are identical, and
\* whenever regime r has no pair of consecutive slots of that regime.
C16_DegenerateFitIsZero ==
    (fn = "estimate_baseline_and_phi" /\ Called) =>
        \A r \in {0, 1} :
            (\/ ResidualsIdentical(args.series_df, r)
             \/ regime_pairs(args.series_df, r) = {}) =>
                /\ ret.phi_w[r].num = 0
                /\ ~ret.phi_w[r].divided

\* C16 witness: a regime with consecutive slots and calls in them, all residuals
\* identical, got the coefficient 0.
C16_Witness ==
    /\ fn = "estimate_baseline_and_phi" /\ Called
    /\ \E r \in {0, 1} :
          /\ regime_pairs(args.series_df, r) # {}
          /\ ResidualsIdentical(args.series_df, r)
          /\ \E t \in regime_pairs(args.series_df, r) : args.series_df[t].count > 0
          /\ ret.phi_w[r].num = 0 /\ ~ret.phi_w[r].divided


\* C17: for a non-empty set of call times the series of build_5min_series has one
\* row for every 5-minute slot from the slot of the earliest call to the slot of
\* the latest call inclusive (consecutive rows exactly 5 minutes apart); a slot
\* without calls has count 0, each slot counts its calls, and the counts sum to the
\* number of calls.
C17_SeriesIsContiguous ==
    (fn = "build_5min_series" /\ Called) =>
        LET times == args.times
            out   == ret.series
            n     == Len(out)
        IN  /\ n >= 1
            /\ \A i \in 1..Len(times) : out[1].interval_start <= times[i]
            /\ \E i \in 1..Len(times) : times[i] - out[1].interval_start < 5
            /\ \A i \in 1..Len(times) : times[i] - out[n].interval_start < 5
            /\ \E i \in 1..Len(times) : out[n].interval_start <= times[i]
            /\ out[1].interval_start % 5 = 0
            /\ \A j \in 1..(n - 1) : out[j + 1].interval_start = out[j].interval_start + 5
            /\ \A j \in 1..n :
                  out[j].count = Cardinality({i \in 1..Len(times) :
                                     /\ out[j].interval_start <= times[i]
                                     /\ times[i] < out[j].interval_start + 5})
            /\ SumSeq([j \in 1..n |-> out[j].count]) = Len(times)

\* C17 witness: a series of three rows or more with an empty slot between two
\* slots that hold calls.
C17_Witness ==
    /\ fn = "build_5min_series" /\ Called
    /\ Len(ret.series) >= 3
    /\ \E j \in 2..(Len(ret.series) - 1) : ret.series[j].count = 0
    /\ ret.series[1].count > 0 /\ ret.series[Len(ret.series)].count > 0


\* The k-th smallest wait of a non-empty frame, by counting.
OrderStatistic(df, k) ==
    CHOOSE x \in {df[i].wait_time : i \in 1..Len(df)} :
        /\ Cardinality({i \in 1..Len(df) : df[i].wait_time < x}) < k
        /\ k <= Cardinality({i \in 1..Len(df) : df[i].wait_time <= x})

\* The P95 of the waits of a non-empty frame, in hundredths.
P95(df) ==
    LET n  == Len(df)
        lo == (95 * (n - 1)) \div 100 + 1
        hi == IF lo < n THEN lo + 1 ELSE n
    IN  100 * OrderStatistic(df, lo)
          + ((95 * (n - 1)) % 100) * (OrderStatistic(df, hi) - OrderStatistic(df, lo))

LobbyRows(df) == SelectSeq(df, LAMBDA row : row.strategy = "lobby")
WindowRows(df) == SelectSeq(df, LAMBDA row : row.peak_window)

\* LongWait% of every strategy of the subset is the share of its calls that wait
\* at least thr.
ReportsShareAtLeast(table, df, thr) ==
    /\ DOMAIN table = {df[i].strategy : i \in 1..Len(df)}
    /\ \A strat \in DOMAIN table :
          LET g == {i \in 1..Len(df) : df[i].strategy = strat}
          IN  table[strat].LongWaitPct.num * Cardinality(g)
                = 100 * Cardinality({i \in g : 100 * df[i].wait_time >= thr})
                    * table[strat].LongWaitPct.den

\* LongWait% of every strategy of the subset is the mean of the is_long_wait
\* column of the log.
ReportsColumnMean(table, df, col) ==
    /\ DOMAIN table = {df[i].strategy : i \in 1..Len(df)}
    /\ \A strat \in DOMAIN table :
          table[strat].LongWaitPct.num = 100 * col * table[strat].LongWaitPct.den

RejectsUnsupportedMode ==
    (fn = "build_task3_tables" /\ Called
        /\ args.long_wait_mode \notin {"p95_lobby", "P95_LOBBY ", "absolute"})
    => ret.error = "ValueError"

IsP95LobbyRun ==
    /\ fn = "build_task3_tables" /\ Called
    /\ args.long_wait_mode \in {"p95_lobby", "P95_LOBBY "}

\* C18: with long-wait mode p95_lobby the LongWait% of each strategy in a subset
\* (overall, or an operating window) that holds lobby calls is the percentage of
\* the strategy's calls of the subset whose wait_time is >= the P95 of the lobby
\* calls of that subset; an unsupported mode is rejected with an error.
C18_LongWaitIsLobbyP95 ==
    /\ RejectsUnsupportedMode
    /\ IsP95LobbyRun =>
          /\ ret.error = "none"
          /\ Len(LobbyRows(args.df)) > 0 =>
                ReportsShareAtLeast(ret.overall, args.df, P95(LobbyRows(args.df)))
          /\ Len(LobbyRows(WindowRows(args.df))) > 0 =>
                /\ Len(ret.windows) = 1
                /\ ReportsShareAtLeast(ret.windows[1].table, WindowRows(args.df),
                                       P95(LobbyRows(WindowRows(args.df))))

\* C18, amended: the above holds when the log carries no is_long_wait column, and
\* a subset without lobby calls uses the P95 of all its calls; when the log
\* carries an is_long_wait column LongWait% is the mean of that column in every
\* mode, whatever the threshold.
C18_LongWaitIsLobbyP95UnlessFlagged ==
    /\ RejectsUnsupportedMode
    /\ IsP95LobbyRun =>
          LET df  == args.df
              gdf == WindowRows(args.df)
              thr(d) == IF Len(LobbyRows(d)) > 0 THEN P95(LobbyRows(d)) ELSE P95(d)
          IN  /\ ret.error = "none"
              /\ Len(ret.windows) = (IF Len(gdf) > 0 THEN 1 ELSE 0)
              /\ args.is_long_wait = << >> =>
                    /\ ReportsShareAtLeast(ret.overall, df, thr(df))
                    /\ Len(gdf) > 0 =>
                          /\ ret.windows[1].LongWaitThreshold = thr(gdf)
                          /\ ReportsShareAtLeast(ret.windows[1].table, gdf, thr(gdf))
              /\ args.is_long_wait # << >> =>
                    /\ ReportsColumnMean(ret.overall, df, args.is_long_wait[1])
                    /\ Len(gdf) > 0 =>
                          ReportsColumnMean(ret.windows[1].table, gdf, args.is_long_wait[1])

\* C18 witness: a p95_lobby run on a log without is_long_wait column whose window
\* holds lobby calls and gets a threshold other than the overall one, under which
\* a strategy's LongWait% in the window differs from its overall LongWait%.
C18_Witness ==
    /\ IsP95LobbyRun /\ args.is_long_wait = << >>
    /\ Len(ret.windows) = 1
    /\ Len(LobbyRows(WindowRows(args.df))) > 0
    /\ ret.windows[1].LongWaitThreshold # P95(LobbyRows(args.df))
    /\ \E strat \in DOMAIN ret.windows[1].table :
          ret.windows[1].table[strat].LongWaitPct.num * ret.overall[strat].LongWaitPct.den
            # ret.overall[strat].LongWaitPct.num * ret.windows[1].table[strat].LongWaitPct.den


PendingEpochs == {i \in dt_iter..Len(decision_times) : decision_times[i] <= call.time}

\* A step that invokes the parking policy / that selects the car of the call.
EpochStep    == engine = "stress" /\ pc = "park" /\ dt_iter' # dt_iter
DispatchStep == engine = "stress" /\ pc = "park" /\ pc' = "fetch"

\* The cars whose floor or available time a step changes.
Touched == {e \in Cars : floor'[e] # floor[e] \/ available_time'[e] # available_time[e]}

\* C20: before a call is dispatched the parking policy is invoked exactly once if
\* one or more decision-epoch boundaries have been crossed since the previous
\* call (after the invocation no boundary is left to act on), for cars that are
\* idle, and not at all if none has been crossed; the car is selected only after.
C20_PolicyOncePerCall ==
    [][/\ EpochStep =>
            /\ PendingEpochs # {}
            /\ PendingEpochs' = {}
            /\ \A e \in Touched : available_time[e] <= call.time
       /\ DispatchStep => PendingEpochs = {}]_vars

\* C20, amended: the policy is invoked once for every boundary crossed, in order
\* of time, each invocation acting at its boundary's time on the cars idle at
\* that time and leaving the call and the recorded waits alone; the car is
\* selected when no crossed boundary is left.
C20_PolicyOncePerBoundary ==
    [][/\ EpochStep =>
            /\ PendingEpochs # {}
            /\ \A i \in PendingEpochs : dt_iter <= i
            /\ PendingEpochs' = PendingEpochs \ {dt_iter}
            /\ \A e \in Touched :
                  /\ available_time[e] <= decision_times[dt_iter]
                  /\ available_time'[e] = decision_times[dt_iter]
                        + Abs(floor[e] - floor'[e]) * seconds_per_floor
            /\ call' = call /\ waits' = waits /\ pc' = "park"
       /\ DispatchStep => PendingEpochs = {}]_vars

\* C20 witness: a call that follows another one is being processed, the policy
\* has been invoked for a boundary crossed since the previous call, and a further
\* crossed boundary is still to be acted on.
C20_Witness ==
    /\ fn = "simulate" /\ pc = "park"
    /\ last.car # 0
    /\ dt_iter >= 2
    /\ decision_times[dt_iter - 1] > last.time
    /\ PendingEpochs # {}


\* The time of the decision epoch an EpochStep acts at.
EpochTime == decision_times[dt_iter]

\* C21: when the parking policy at decision epoch t relocates an idle car from
\* floor f to a target floor g # f, the car's floor becomes g (the lobby floor
\* under strategy lobby) and its available time becomes
\* t + |f - g| * seconds_per_floor; an idle car already at its target floor keeps
\* its floor and its available time.
C21_RelocationEffect ==
    [][EpochStep =>
          \A e \in Cars :
             /\ floor'[e] # floor[e] =>
                   /\ available_time[e] <= EpochTime
                   /\ available_time'[e] =
                         EpochTime + Abs(floor[e] - floor'[e]) * seconds_per_floor
                   /\ strategy = "lobby" => floor'[e] = LOBBY_FLOOR
             /\ floor'[e] = floor[e] => available_time'[e] = available_time[e]]_vars

\* C21 witness: at the last epoch a car was relocated over a positive travel time
\* while another car, idle before that epoch, was left where it was.
C21_Witness ==
    /\ engine = "stress" /\ pc = "park" /\ dt_iter >= 2 /\ n_elevators >= 2
    /\ \E e \in moved : available_time[e] > decision_times[dt_iter - 1]
    /\ \E e \in Cars \ moved : available_time[e] < decision_times[dt_iter - 1]

\* C22: under strategy last_stop a decision epoch changes no car's floor or
\* available time; a car's floor changes only when the car is dispatched, to the
\* floor of the call, so a car that never served is at its initial floor and the
\* car of the last dispatch is at that call's floor.
C22_LastStopIsIdentity ==
    [][strategy = "last_stop" =>
          /\ EpochStep => floor' = floor /\ available_time' = available_time
          /\ \A e \in Cars :
                /\ floor'[e] # floor[e] => last'.car = e /\ floor'[e] = last'.floor
                                           /\ last' # last
                /\ lastArr'[e] = << >> => floor'[e] = init_pos[e]
          /\ last'.car # 0 => floor'[last'.car] = last'.floor]_vars

\* C22 witness: under last_stop every epoch of the window has passed while a car
\* stood idle on the floor of the call it served, neither its initial floor nor
\* the lobby.
C22_Witness ==
    /\ strategy = "last_stop" /\ engine = "stress" /\ pc = "park"
    /\ ~HasNextDec /\ Len(waits) >= 1
    /\ \E e \in Cars : /\ floor[e] # init_pos[e] /\ floor[e] # LOBBY_FLOOR
                       /\ available_time[e] <= decision_times[dt_iter - 1]

\* C23: parking_lobby(k) returns k entries all equal to 1, and under strategy
\* lobby every car idle at a decision epoch is at the lobby floor, the floor of
\* that plan, immediately after the epoch.
C23_LobbyTargetsFloorOne ==
    [][(EpochStep /\ strategy = "lobby") =>
          /\ \A k \in 0..MaxFleet :
                /\ Len(parking_lobby(k)) = k
                /\ \A i \in 1..k : parking_lobby(k)[i] = 1
          /\ LET id == {e \in Cars : available_time[e] <= EpochTime}
             IN  \A e \in id : /\ floor'[e] = LOBBY_FLOOR
                               /\ floor'[e] = parking_lobby(Cardinality(id))[1]]_vars

\* C23 witness: under lobby a car that served a call away from the lobby has been
\* brought back by an epoch.
C23_Witness ==
    /\ strategy = "lobby" /\ engine = "stress" /\ pc = "park"
    /\ \E e \in moved : lastArr[e] # << >> /\ floor[e] = LOBBY_FLOOR

\* C27: in a run no car's available time ever decreases: a dispatch sets the
\* selected car's to arrival + door_time, a repositioning at epoch t touches only
\* cars with available_time <= t and sets it to a value >= t.
C27_AvailableTimeMonotone ==
    [][/\ \A e \in Cars : available_time'[e] >= available_time[e]
       /\ DispatchStep =>
             available_time'[last'.car] = lastArr'[last'.car][1] + door_time
       /\ EpochStep =>
             \A e \in Touched : /\ available_time[e] <= EpochTime
                                /\ available_time'[e] >= EpochTime]_vars

\* C27 witness: a car that served a call has since been repositioned and is
\* available later than the end of that service.
C27_Witness ==
    \E e \in Cars : /\ lastArr[e] # << >> /\ e \in moved
                    /\ available_time[e] > lastArr[e][1] + door_time
                    /\ door_time > 0

\* C28: dispatching a call changes the floor and available time of the selected
\* car only; a decision epoch at time t changes neither the floor nor the
\* available time of a car that is busy at t (available_time > t).
C28_FrameConditions ==
    [][/\ DispatchStep =>
             \A e \in Cars \ {last'.car} :
                floor'[e] = floor[e] /\ available_time'[e] = available_time[e]
       /\ EpochStep =>
             \A e \in Cars :
                available_time[e] > EpochTime =>
                   floor'[e] = floor[e] /\ available_time'[e] = available_time[e]]_vars

\* C28 witness: at the last epoch an idle car was moved while a car busy at that
\* time, not on the floor the policy moved the idle car to, was left alone.
C28_Witness ==
    /\ engine = "stress" /\ pc = "park" /\ dt_iter >= 2 /\ moved # {}
    /\ strategy = "dynamic"
    /\ \E e \in Cars \ moved : /\ lastArr[e] # << >>
                               /\ lastArr[e][1] + door_time > decision_times[dt_iter - 1]
                               /\ \E i \in moved : floor[e] # floor[i]


\* Calendar of a slot number (slot 0 is a Monday 00:00): its day, its slot of the
\* day and its regime (1 on Monday..Friday, 0 at the weekend).
DayOf(ts)     == ts \div 288
SlotOfDay(ts) == ts - 288 * DayOf(ts)
RegimeOf(ts)  == IF DayOf(ts) - 7 * (DayOf(ts) \div 7) \in {5, 6} THEN 0 ELSE 1

\* C24: predict_next returns next_ts = last_ts + 5 minutes and
\* y_hat = max(0, mu[w(next_ts)][tau(next_ts)]
\*                + phi[w(last_ts)] * (last_count - mu[w(last_ts)][tau(last_ts)])),
\* with tau wrapping from 287 to 0 at midnight and the regimes of the two slots
\* taken separately; mu and phi are not modified.
C24_ForecastFormula ==
    (fn = "predict_next" /\ Called) =>
        LET lastTs    == args.last_ts
            nextTs    == lastTs + 1
            tauNext == IF SlotOfDay(lastTs) = 287 THEN 0 ELSE SlotOfDay(lastTs) + 1
            raw     == 10 * args.mu_w[RegimeOf(nextTs)][tauNext]
                         + args.phi_w[RegimeOf(lastTs)]
                             * (args.last_count - args.mu_w[RegimeOf(lastTs)][SlotOfDay(lastTs)])
        IN  /\ ret.next_ts = nextTs
            /\ ret.y_hat = (IF raw > 0 THEN raw ELSE 0)
            /\ DOMAIN ret = {"next_ts", "y_hat"}

\* C24 witness: the last slot is a Friday 23:55, so the next slot is tau 0 of a
\* weekend day; the two regimes have different baselines there and different
\* coefficients, and the forecast is positive.
C24_Witness ==
    /\ fn = "predict_next" /\ Called
    /\ args.last_ts = 5 * 288 - 1
    /\ args.mu_w[0][0] # args.mu_w[1][0]
    /\ args.phi_w[0] # args.phi_w[1] /\ args.phi_w[1] # 0
    /\ args.last_count # args.mu_w[1][287]
    /\ ret.y_hat > 0


\* The bin of the log just before bin b, if any.
HasPrecedingBin(lab, b) == \E c \in DOMAIN lab : c < b
PrecedingBin(lab, b) == CHOOSE c \in DOMAIN lab : c < b /\ \A d \in DOMAIN lab : d < b => d <= c

\* C25: a call is in the transition window exactly when its 5-minute bin lies
\* within 3 slots of a bin whose state label differs from the label of the
\* preceding bin; when the label never changes over the log no call is tagged.
C25_TransitionAroundLabelChanges ==
    (fn = "tag_windows" /\ Called /\ args.label_col = "state") =>
        LET lab == args.lab
            changes == {c \in DOMAIN lab : /\ HasPrecedingBin(lab, c)
                                           /\ lab[c] # lab[PrecedingBin(lab, c)]}
        IN  \A b \in DOMAIN lab :
               ret.transition_window[b] <=> \E c \in changes : b - c \in -3..3


\* The rows an evaluator step logs for a strategy, and the cost of moving the
\* cars from the previous parking floors to the new ones: the floors of both
\* plans in increasing order, paired in that order, distances summed.
NewRows(s) == {r \in {ret'.logs[n] : n \in (Len(ret.logs) + 1)..Len(ret'.logs)} : r.strategy = s}
FloorsMoved(prev, curr) ==
    LET a == sorted(prev)
        b == sorted(curr)
    IN  SumSeq([j \in 1..(IF Len(a) <= Len(b) THEN Len(a) ELSE Len(b)) |-> Abs(a[j] - b[j])])

\* Every call of the window carries the same share and the shares sum to cost.
SharedEvenly(rows, cost) ==
    /\ \A r1, r2 \in rows : r1.empty_travel = r2.empty_travel
    /\ \A r \in rows : r.empty_travel.den = Cardinality(rows)
                       /\ r.empty_travel.num * Cardinality(rows) = cost * r.empty_travel.den

\* C26: for each strategy and each decision window the repositioning cost, the
\* sum over cars of |current_floor - target_floor| * seconds_per_floor, is
\* attributed evenly to the calls of the window: every call carries the same
\* empty_travel and these values sum to that cost.
C26_EmptyTravelIsTravelTime ==
    [][fn = "evaluate" =>
          \A s \in EvalStrategies :
             SharedEvenly(NewRows(s),
                          FloorsMoved(ret.prev_parking[s], ret'.prev_parking[s])
                            * args.v_floor)]_vars

\* C26, amended: the cost attributed evenly is the number of floors moved, the
\* sum over cars of |current_floor - target_floor| with the two plans paired in
\* increasing order of floor; it is not multiplied by seconds_per_floor.
C26_EmptyTravelIsFloorsMoved ==
    [][fn = "evaluate" =>
          \A s \in EvalStrategies :
             /\ NewRows(s) # {}
             /\ SharedEvenly(NewRows(s),
                             FloorsMoved(ret.prev_parking[s], ret'.prev_parking[s]))]_vars

\* C26 witness: a window after the first whose plan differs from the previous
\* one and whose cost is shared by two calls or more.
C26_Witness ==
    /\ fn = "evaluate"
    /\ \E n \in 1..Len(ret.logs) :
          /\ ret.logs[n].bin >= 1
          /\ ret.logs[n].empty_travel.num > 0
          /\ ret.logs[n].empty_travel.den >= 2

\* C29: in the evaluator the parking floors of last_stop are [1]*k at every
\* epoch; for every call last_stop's wait_time equals lobby's wait_time and
\* last_stop's empty_travel is 0.
C29_LastStopStaysAtLobby ==
    fn = "evaluate" =>
        /\ ret.prev_parking["last_stop"] = [j \in 1..args.k |-> 1]
        /\ \A n \in 1..Len(ret.logs) :
              ret.logs[n].strategy = "last_stop" =>
                 /\ ret.logs[n].empty_travel.num = 0
                 /\ \E m \in 1..Len(ret.logs) :
                       /\ ret.logs[m].strategy = "lobby"
                       /\ ret.logs[m].bin = ret.logs[n].bin
                       /\ ret.logs[m].call_no = ret.logs[n].call_no
                       /\ ret.logs[m].wait_time = ret.logs[n].wait_time

\* C29 witness: two bins or more have been evaluated, the zone plan has left the
\* lobby, and a last_stop call away from floor 1 has been logged.
C29_Witness ==
    /\ fn = "evaluate" /\ ret.i >= 2
    /\ ret.prev_parking["zone"] # ret.prev_parking["last_stop"]
    /\ \E n \in 1..Len(ret.logs) :
          ret.logs[n].strategy = "last_stop" /\ ret.logs[n].bin >= 1
          /\ ret.logs[n].wait_time > args.door

\* The floors of the calls of the bins j (1-based) with lo <= j <= hi, in order.
RECURSIVE FloorsOfBins(_, _, _)
FloorsOfBins(bins, lo, hi) ==
    IF lo > hi THEN << >> ELSE FloorsOfBins(bins, lo, hi - 1) \o bins[hi]

====
